---------------------------- MODULE Spec2Model ----------------------------
(***************************************************************************)
(* color_scheme_generator: the sqlite-backed theme cache (database.rs),    *)
(* the textual colour conversions (common.rs), the pixel statistics        *)
(* (theme_calculation.rs) and the get-or-compute path of main (main.rs).   *)
(*                                                                         *)
(* Seven specifications share the variables:                                *)
(*   Spec       the DatabaseConnection methods called in any order         *)
(*   SpecInsert whole inserts (wallpaper row, color_themes row, RGB rows)  *)
(*              and lookups on one connection                              *)
(*   SpecMain   invocations of main on one cache file, with storage        *)
(*              failures and interleaved processes                         *)
(*   SpecStat   the pixel statistics applied to bounded pixel sequences    *)
(*   SpecColor  the functions of one colour: its theme and its text form   *)
(*   SpecRecord single rows written and read back, with quotes in paths    *)
(*   SpecWriters two processes whose inserts interleave row by row         *)
(***************************************************************************)
EXTENDS Integers, Sequences, FiniteSets, TLC

VARIABLES
    wallpaper,      \* table wallpaper(path, centrality); ROWID = index
    color_themes,   \* table color_themes(15 option columns, wallpaper)
    rgb,            \* table RGB(RGB, wallpaper, color_themes)
    last,           \* the last DatabaseConnection call and its result
    prev,           \* the tables as they were before that call
    inserted,       \* history: the keys a color_themes row was written for
    pc,             \* main: position of each process
    req,            \* main: the Args of each process
    theme,          \* main: the palette computed or read by each process
    cursor,         \* main: how many RGB rows of the insert are written
    trace,          \* main: what the current request of each process did
    offered,        \* main: history of the palettes handed to an insert
    completed,      \* main: history of requests that computed and inserted
    failures,       \* main: storage failures injected so far
    requests,       \* main: requests started so far
    pixels,         \* statistics: the input pixel sequence
    stat            \* statistics: the function applied, its argument, its result

vars == <<wallpaper, color_themes, rgb, last, prev, inserted,
          pc, req, theme, cursor, trace, offered, completed, failures,
          requests, pixels, stat>>

dbvars == <<wallpaper, color_themes, rgb>>
apivars == <<last, prev, inserted>>
mainvars ==
    <<pc, req, theme, cursor, trace, offered, completed, failures, requests>>
statvars == <<pixels, stat>>

(***************************************************************************)
(* Bounds of the model.                                                    *)
(***************************************************************************)
MaxRows == 4
MaxInserts == 2
MaxRequests == 3
MaxFailures == 1
MaxPixels == 4
MaxThemes == 3
MaxRecords == 2
MaxWrites == 3

(***************************************************************************)
(* common.rs: Centrality and its text form.                                *)
(***************************************************************************)
Centrality == {"Average", "Median", "Prevalent"}

CentralityDisplay(c) ==
    CASE c = "Average" -> "average"
      [] c = "Median" -> "median"
      [] c = "Prevalent" -> "prevalent"

\* The characters that Display writes into a statement.
CentralityText(c) ==
    CASE c = "Average" -> <<"a", "v", "e", "r", "a", "g", "e">>
      [] c = "Median" -> <<"m", "e", "d", "i", "a", "n">>
      [] c = "Prevalent" -> <<"p", "r", "e", "v", "a", "l", "e", "n", "t">>

CentralityFromStr(s) ==
    CASE s = "average" -> [ok |-> TRUE, val |-> "Average"]
      [] s = "median" -> [ok |-> TRUE, val |-> "Median"]
      [] s = "prevalent" -> [ok |-> TRUE, val |-> "Prevalent"]
      [] OTHER -> [ok |-> FALSE, val |-> "Average"]

(***************************************************************************)
(* common.rs: RGB, Display for RGB ("#{:02x}{:02x}{:02x}") and FromStr     *)
(* for RGB (regex, hex_to_rgb, char_to_u8).  Text is a sequence of         *)
(* one-character strings.                                                  *)
(***************************************************************************)
RGB(r, g, b) == [red |-> r, green |-> g, blue |-> b]

LowerHex == <<"0", "1", "2", "3", "4", "5", "6", "7",
              "8", "9", "a", "b", "c", "d", "e", "f">>
UpperHex == <<"0", "1", "2", "3", "4", "5", "6", "7",
              "8", "9", "A", "B", "C", "D", "E", "F">>

\* The ASCII code of a character of a colour text.
AsciiCode(ch) ==
    IF ch = "#" THEN 35
    ELSE IF \E i \in 1..10 : LowerHex[i] = ch
         THEN 47 + (CHOOSE i \in 1..10 : LowerHex[i] = ch)
    ELSE IF \E i \in 11..16 : LowerHex[i] = ch
         THEN 86 + (CHOOSE i \in 11..16 : LowerHex[i] = ch)
    ELSE IF \E i \in 11..16 : UpperHex[i] = ch
         THEN 54 + (CHOOSE i \in 11..16 : UpperHex[i] = ch)
    ELSE 0

to_ascii_uppercase(x) == IF x >= 97 /\ x <= 122 THEN x - 32 ELSE x

\* {:02x} of a byte: two lowercase hexadecimal digits.
LowerHex02(v) == <<LowerHex[(v \div 16) + 1], LowerHex[(v % 16) + 1]>>

RGBDisplay(c) ==
    <<"#">> \o LowerHex02(c.red) \o LowerHex02(c.green) \o LowerHex02(c.blue)

char_to_u8(ch) ==
    LET x == to_ascii_uppercase(AsciiCode(ch))
    IN  IF x >= 48 /\ x <= 58 THEN [ok |-> TRUE, val |-> x - 48]
        ELSE IF x >= 65 /\ x <= 90 THEN [ok |-> TRUE, val |-> x - 55]
        ELSE [ok |-> FALSE, val |-> 0]

\* Mutant of hex_to_rgb: the two digits change places.
hex_to_rgb_swapped(msd, lsd) ==
    LET hi == char_to_u8(lsd)
        lo == char_to_u8(msd)
        ret == (hi.val * 16) + lo.val
    IN  IF hi.ok /\ lo.ok /\ ret <= 255
        THEN [ok |-> TRUE, val |-> ret]
        ELSE [ok |-> FALSE, val |-> 0]

hex_to_rgb(msd, lsd) ==
    LET hi == char_to_u8(msd)
        lo == char_to_u8(lsd)
        ret == (hi.val * 16) + lo.val
    IN  IF hi.ok /\ lo.ok /\ ret <= 255
        THEN [ok |-> TRUE, val |-> ret]
        ELSE [ok |-> FALSE, val |-> 0]

\* ^#[0123456789AaBbCcDdEeFf]{6}$
IsHexColorText(s) ==
    /\ Len(s) = 7
    /\ s[1] = "#"
    /\ \A i \in 2..7 : \E j \in 1..16 : s[i] = LowerHex[j] \/ s[i] = UpperHex[j]

RGBFromStr(s) ==
    IF IsHexColorText(s)
    THEN LET r == hex_to_rgb(s[2], s[3])
             g == hex_to_rgb(s[4], s[5])
             b == hex_to_rgb(s[6], s[7])
         IN  IF r.ok /\ g.ok /\ b.ok
             THEN [ok |-> TRUE, val |-> RGB(r.val, g.val, b.val)]
             ELSE [ok |-> FALSE, val |-> RGB(0, 0, 0)]
    ELSE [ok |-> FALSE, val |-> RGB(0, 0, 0)]

(***************************************************************************)
(* common.rs: Wallpaper and ColorThemeOption.                              *)
(***************************************************************************)
Wallpaper(p, c) == [path |-> p, centrality |-> c]

DefaultOption ==
    [darker |-> 0, lighter |-> 0, complementary |-> FALSE, contrast |-> FALSE,
     hue_offset |-> 0, triadic |-> FALSE, quadratic |-> FALSE,
     tetratic |-> FALSE, analogous |-> FALSE, split_complementary |-> FALSE,
     monochromatic |-> 0, shades |-> 0, tints |-> 0, tones |-> 0, blends |-> 0]


\* The option fields that differ from the default in ct.
NonDefaultFields(ct) ==
    {f \in DOMAIN DefaultOption : ct[f] # DefaultOption[f]}

(***************************************************************************)
(* database.rs: the three tables of DatabaseConnection::new.  A database   *)
(* value is a record of the three row sequences; a row's ROWID is its      *)
(* index (sqlite assigns max(ROWID)+1; the one DELETE a path can carry     *)
(* empties the whole wallpaper table, and sqlite then starts at 1 again).  *)
(***************************************************************************)
DB == [wallpaper |-> wallpaper, color_themes |-> color_themes, rgb |-> rgb]

\* The tables of DatabaseConnection::new, in the order it creates them
\* (rgb is the table RGB).
TableNames == <<"wallpaper", "color_themes", "rgb">>

\* A cache file: a function from the names of the tables it holds to their
\* rows.  A file that sqlite::open has just created holds no table.
NoTables == [n \in {} |-> <<>>]

FileOf(db) == [n \in {TableNames[i] : i \in 1..Len(TableNames)} |-> db[n]]

\* Mutant of CreateTableIfNotExists: DROP TABLE IF EXISTS and CREATE TABLE.
CreateTableIfNotExists_recreating(file, name) ==
    [n \in DOMAIN file \cup {name} |-> IF n = name THEN <<>> ELSE file[n]]

\* CREATE TABLE IF NOT EXISTS name(..): nothing where the file holds the
\* table, the empty table where it does not.
CreateTableIfNotExists(file, name) ==
    IF name \in DOMAIN file THEN file
    ELSE [n \in DOMAIN file \cup {name} |->
            IF n = name THEN <<>> ELSE file[n]]

\* DatabaseConnection::new on a cache file: the three CREATE TABLE IF NOT
\* EXISTS statements one after the other.
RECURSIVE new_on(_, _)
new_on(file, i) ==
    IF i > Len(TableNames) THEN file
    ELSE new_on(CreateTableIfNotExists(file, TableNames[i]), i + 1)

\* The database of a connection opened on a file.
Connection(file) ==
    [wallpaper |-> file["wallpaper"], color_themes |-> file["color_themes"],
     rgb |-> file["rgb"]]

\* DatabaseConnection::new on a file that did not exist.
new == Connection(new_on(NoTables, 1))

(***************************************************************************)
(* database.rs: the statements are built by format! with the path between  *)
(* two quotes, so sqlite reads the path as part of the statement text.     *)
(* The operators below read a statement as sqlite does for the paths of    *)
(* SqlPath: at most MaxPathLen characters, each a letter, the quote, white *)
(* space (space, tab, newline, carriage return, form feed) or one of the   *)
(* six characters of SqlPathPunctuation, where every run of letters, in a  *)
(* literal or outside one, is made of the letters of SqlLetter or is one   *)
(* of the three words of SqlWords.  The letters of SqlLetter spell no SQL  *)
(* keyword, table, column or function, so a run of them outside a literal  *)
(* is a name sqlite does not know.  The words of SqlWords spell one        *)
(* statement, DELETE FROM wallpaper, which execute runs when a path puts   *)
(* it after the INSERT; no other SQL word is read here (OR, SELECT, DROP,  *)
(* a function name ..), and no path of SqlPath spells one.  A path holds   *)
(* no digit, no = and no point: with them a path can build any number,     *)
(* and no operator here models sqlite's arithmetic on other numbers than   *)
(* zero; the only = and the only AND and centrality are the statement's    *)
(* own.  MaxPathLen keeps a statement below the limits of sqlite's parser  *)
(* (its stack of 100 symbols, its expression depth of 1000).               *)
(***************************************************************************)
MaxPathLen == 64

\* The letters of the names that mean nothing to sqlite.
SqlLetter == {"a", "b", "e", "A", "B", "E"}

\* The SQL words a path may spell.
SqlWords ==
    {<<"D", "E", "L", "E", "T", "E">>, <<"F", "R", "O", "M">>,
     <<"w", "a", "l", "l", "p", "a", "p", "e", "r">>}

\* The letters of a path.
SqlPathLetter == SqlLetter \cup UNION {{w[i] : i \in 1..Len(w)} : w \in SqlWords}

SqlSpace == {" ", "\t", "\n", "\r", "\f"}

SqlPathPunctuation == {"|", ",", "(", ")", "-", ";"}

\* The punctuation of a statement: that of a path and the statement's = .
SqlPunctuation == SqlPathPunctuation \cup {"="}

Token(kind, text) == [t |-> kind, v |-> text]

\* The text of a literal whose opening quote is before position i: a
\* doubled quote is one quote, a single quote closes the literal, and a
\* literal that is still open at the end of the statement is no token.
RECURSIVE SqlTextLiteral(_, _, _)
SqlTextLiteral(s, i, acc) ==
    IF i > Len(s) THEN [ok |-> FALSE, val |-> acc, next |-> i]
    ELSE IF s[i] # "'" THEN SqlTextLiteral(s, i + 1, Append(acc, s[i]))
    ELSE IF i < Len(s) /\ s[i + 1] = "'"
         THEN SqlTextLiteral(s, i + 2, Append(acc, "'"))
    ELSE [ok |-> TRUE, val |-> acc, next |-> i + 1]

\* A comment -- runs to the end of the line.
RECURSIVE SqlCommentEnd(_, _)
SqlCommentEnd(s, i) ==
    IF i > Len(s) \/ s[i] = "\n" THEN i ELSE SqlCommentEnd(s, i + 1)

\* The characters that end a word.
SqlWordBreak == SqlSpace \cup SqlPunctuation \cup {"'"}

RECURSIVE SqlWordEnd(_, _)
SqlWordEnd(s, i) ==
    IF i > Len(s) \/ s[i] \in SqlWordBreak THEN i ELSE SqlWordEnd(s, i + 1)

\* The paths whose statements the operators below read.
SqlPath(p) ==
    /\ Len(p) <= MaxPathLen
    /\ \A i \in 1..Len(p) :
          /\ p[i] \in SqlPathLetter \cup SqlSpace \cup SqlPathPunctuation \cup {"'"}
          /\ (p[i] \in SqlPathLetter /\ (i = 1 \/ p[i - 1] \notin SqlPathLetter))
                => LET word == SubSeq(p, i, SqlWordEnd(p, i) - 1)
                   IN  \/ \A j \in 1..Len(word) : word[j] \in SqlLetter
                       \/ word \in SqlWords

\* The tokens of the statement text s from position i on.  The token
\* "bad" ends the sequence where the text is not a token.
RECURSIVE SqlTokens(_, _)
SqlTokens(s, i) ==
    IF i > Len(s) THEN <<>>
    ELSE IF s[i] \in SqlSpace THEN SqlTokens(s, i + 1)
    ELSE IF s[i] = "'"
         THEN LET lit == SqlTextLiteral(s, i + 1, <<>>)
              IN  IF lit.ok
                  THEN <<Token("str", lit.val)>> \o SqlTokens(s, lit.next)
                  ELSE <<Token("bad", <<>>)>>
    ELSE IF s[i] = "-" /\ i < Len(s) /\ s[i + 1] = "-"
         THEN SqlTokens(s, SqlCommentEnd(s, i))
    ELSE IF s[i] = "|" /\ i < Len(s) /\ s[i + 1] = "|"
         THEN <<Token("||", <<>>)>> \o SqlTokens(s, i + 2)
    ELSE IF s[i] \in SqlPunctuation
         THEN <<Token(s[i], <<>>)>> \o SqlTokens(s, i + 1)
    ELSE LET e == SqlWordEnd(s, i)
         IN  <<Token("word", SubSeq(s, i, e - 1))>> \o SqlTokens(s, e)

\* The first statement of a token sequence, and what follows its ; .
SqlFirstStatement(t) ==
    LET ends == {i \in 1..Len(t) : t[i].t = ";"}
        end == IF ends = {} THEN Len(t) + 1
               ELSE CHOOSE i \in ends : \A j \in ends : i <= j
    IN  [first |-> SubSeq(t, 1, end - 1), rest |-> SubSeq(t, end + 1, Len(t))]

NoParse == [ok |-> FALSE, val |-> <<>>, rest |-> <<>>]

Parsed(v, rest) == [ok |-> TRUE, val |-> v, rest |-> rest]

\* The only digit in the text of a value: no path holds a digit, and the
\* numbers that - and | give are zero.
SqlDigit == {"0"}

\* The first position from i on whose character is not in the set.
RECURSIVE SqlSkip(_, _, _)
SqlSkip(s, i, set) ==
    IF i <= Len(s) /\ s[i] \in set THEN SqlSkip(s, i + 1, set) ELSE i

SqlAfterSign(s, i) == IF i <= Len(s) /\ s[i] \in {"+", "-"} THEN i + 1 ELSE i

\* An exponent at position i: e or E, a sign or none, and a digit.
SqlExponent(s, i) ==
    /\ i <= Len(s)
    /\ s[i] \in {"e", "E"}
    /\ SqlAfterSign(s, i + 1) <= Len(s)
    /\ s[SqlAfterSign(s, i + 1)] \in SqlDigit

\* The digits of a number start at b and the digits before a point end
\* before c: the number is a real with a point that has a digit on one
\* of its sides, or with digits and an exponent.
SqlRealDigits(s, b, c) ==
    IF c <= Len(s) /\ s[c] = "."
    THEN (c - b) + (SqlSkip(s, c + 1, SqlDigit) - (c + 1)) > 0
    ELSE c > b /\ SqlExponent(s, c)

\* Whether arithmetic reads the text s as a real number: the number is
\* the longest one that starts the text, after white space and a sign.
\* A text that starts with no number, or with digits only, is an integer.
SqlIsReal(s) ==
    SqlRealDigits(s, SqlAfterSign(s, SqlSkip(s, 1, SqlSpace)),
                  SqlSkip(s, SqlAfterSign(s, SqlSkip(s, 1, SqlSpace)), SqlDigit))

\* The text of the zero that - and | give: 0.0 for a real, 0 for an
\* integer.
SqlZero(real) == IF real THEN <<"0", ".", "0">> ELSE <<"0">>

\* The binary operators, from the loosest binding to the tightest, and
\* the text of their result: | gives an integer, - gives a real when one
\* of its operands is a real, || joins two texts.
SqlOperator(level) ==
    CASE level = 1 -> "|"
      [] level = 2 -> "-"
      [] level = 3 -> "||"

SqlApply(level, a, b) ==
    IF level = 3 THEN a \o b
    ELSE IF level = 2 THEN SqlZero(SqlIsReal(a) \/ SqlIsReal(b))
    ELSE SqlZero(FALSE)

\* An expression at the start of the token sequence t: its value as text
\* and the tokens after it.  Levels 1 to 3 are the binary operators
\* (left to right), level 4 is the unary -, level 5 is a literal or
\* ( expression ).
RECURSIVE SqlExprAt(_, _), SqlExprTail(_, _, _)
SqlExprTail(level, v, t) ==
    IF t # <<>> /\ Head(t).t = SqlOperator(level)
    THEN LET r == SqlExprAt(level + 1, Tail(t))
         IN  IF r.ok
             THEN SqlExprTail(level, SqlApply(level, v, r.val), r.rest)
             ELSE NoParse
    ELSE Parsed(v, t)

SqlExprAt(level, t) ==
    IF level <= 3
    THEN LET l == SqlExprAt(level + 1, t)
         IN  IF l.ok THEN SqlExprTail(level, l.val, l.rest) ELSE NoParse
    ELSE IF level = 4
    THEN IF t # <<>> /\ Head(t).t = "-"
         THEN LET u == SqlExprAt(4, Tail(t))
              IN  IF u.ok THEN Parsed(SqlZero(SqlIsReal(u.val)), u.rest)
                  ELSE NoParse
         ELSE SqlExprAt(5, t)
    ELSE IF t = <<>> THEN NoParse
    ELSE IF Head(t).t = "str" THEN Parsed(Head(t).v, Tail(t))
    ELSE IF Head(t).t = "("
         THEN LET e == SqlExprAt(1, Tail(t))
              IN  IF e.ok /\ e.rest # <<>> /\ Head(e.rest).t = ")"
                  THEN Parsed(e.val, Tail(e.rest))
                  ELSE NoParse
    ELSE NoParse

SqlExpr(t) == SqlExprAt(1, t)

\* A text as one string: the centrality column of a row is a string.
RECURSIVE StringOf(_)
StringOf(text) == IF text = <<>> THEN "" ELSE Head(text) \o StringOf(Tail(text))

\* One more row ( path , centrality ) of a VALUES list, given the two
\* expressions read after its ( : the tokens after the row.
SqlValuesRow(a, b, rows) ==
    IF a.ok /\ b.ok /\ b.rest # <<>> /\ Head(b.rest).t = ")"
    THEN [ok |-> TRUE,
          rows |-> Append(rows, [path |-> a.val,
                                 centrality |-> StringOf(b.val)]),
          rest |-> Tail(b.rest)]
    ELSE [ok |-> FALSE, rows |-> <<>>, rest |-> <<>>]

\* The second expression of a row, after the comma that follows the first.
SqlSecondValue(a) ==
    IF a.ok /\ a.rest # <<>> /\ Head(a.rest).t = ","
    THEN SqlExpr(Tail(a.rest))
    ELSE NoParse

\* VALUES (path, centrality) [, (path, centrality)]* : the rows of the
\* statement, which has to give two values for the two columns.
RECURSIVE SqlValuesRows(_, _), SqlValuesMore(_)
SqlValuesMore(r) ==
    IF ~r.ok THEN [ok |-> FALSE, rows |-> <<>>]
    ELSE IF r.rest = <<>> THEN [ok |-> TRUE, rows |-> r.rows]
    ELSE IF Head(r.rest).t = "," THEN SqlValuesRows(Tail(r.rest), r.rows)
    ELSE [ok |-> FALSE, rows |-> <<>>]

SqlValuesRows(t, rows) ==
    IF t = <<>> \/ Head(t).t # "(" THEN [ok |-> FALSE, rows |-> <<>>]
    ELSE SqlValuesMore(SqlValuesRow(SqlExpr(Tail(t)),
                                    SqlSecondValue(SqlExpr(Tail(t))), rows))

\* The statement DELETE FROM wallpaper, the table named by a word or by
\* a literal: it has no WHERE clause and removes every row of the table.
SqlDeleteFrom(t) ==
    /\ Len(t) = 3
    /\ t[1] = Token("word", <<"D", "E", "L", "E", "T", "E">>)
    /\ t[2] = Token("word", <<"F", "R", "O", "M">>)
    /\ t[3].t \in {"word", "str"}
    /\ t[3].v = <<"w", "a", "l", "l", "p", "a", "p", "e", "r">>

\* The statements after the first, which execute runs one after the
\* other until one fails: an empty statement does nothing, DELETE FROM
\* wallpaper empties the table, anything else is an error.
RECURSIVE SqlExecuteRest(_, _)
SqlExecuteRest(t, deleted) ==
    IF t = <<>> THEN [ok |-> TRUE, deleted |-> deleted]
    ELSE IF SqlFirstStatement(t).first = <<>>
    THEN SqlExecuteRest(SqlFirstStatement(t).rest, deleted)
    ELSE IF SqlDeleteFrom(SqlFirstStatement(t).first)
    THEN SqlExecuteRest(SqlFirstStatement(t).rest, TRUE)
    ELSE [ok |-> FALSE, deleted |-> deleted]

\* The outcome of execute on a statement sequence: the rows the first
\* statement writes, whether a later statement deletes the rows of the
\* table, and ok when no statement fails.  What the statements before a
\* failing statement did stays done (no transaction is open).
SqlExecuteInsert(st) ==
    [ok |-> /\ SqlValuesRows(st.first, <<>>).ok
            /\ SqlExecuteRest(st.rest, FALSE).ok,
     rows |-> SqlValuesRows(st.first, <<>>).rows,
     deleted |-> /\ SqlValuesRows(st.first, <<>>).ok
                 /\ SqlExecuteRest(st.rest, FALSE).deleted]

\* "INSERT INTO wallpaper(path, centrality) VALUES ('{}', '{}')", from
\* the ( on, run by execute.
InsertWallpaperStatement(w) ==
    SqlExecuteInsert(SqlFirstStatement(SqlTokens(
        <<"(", "'">> \o w.path \o <<"'", ",", " ", "'">>
            \o CentralityText(w.centrality) \o <<"'", ")">>, 1)))

\* The WHERE clause after "path =": the expression e, then nothing or
\* AND centrality = 'text'.
SqlWhere(e) ==
    IF ~e.ok
    THEN [ok |-> FALSE, path |-> <<>>, any |-> FALSE, centrality |-> ""]
    ELSE IF e.rest = <<>>
    THEN [ok |-> TRUE, path |-> e.val, any |-> TRUE, centrality |-> ""]
    ELSE IF /\ Len(e.rest) = 4
            /\ e.rest[1] = Token("word", <<"A", "N", "D">>)
            /\ e.rest[2] = Token("word", <<"c", "e", "n", "t", "r", "a",
                                           "l", "i", "t", "y">>)
            /\ e.rest[3].t = "="
            /\ e.rest[4].t = "str"
    THEN [ok |-> TRUE, path |-> e.val, any |-> FALSE,
          centrality |-> StringOf(e.rest[4].v)]
    ELSE [ok |-> FALSE, path |-> <<>>, any |-> FALSE, centrality |-> ""]

\* "... where path = '{}' AND centrality = '{}'", from the first quote
\* on, read by prepare, which compiles the first statement only: the path
\* the rows are compared with and the centrality, or any centrality when
\* the text of the path ends the statement before the AND.
WallpaperWhere(w) ==
    SqlWhere(SqlExpr(SqlFirstStatement(SqlTokens(
        <<"'">> \o w.path
            \o <<"'", " ", "A", "N", "D", " ", "c", "e", "n", "t", "r", "a",
                 "l", "i", "t", "y", " ", "=", " ", "'">>
            \o CentralityText(w.centrality) \o <<"'">>, 1)).first))

\* The ROWIDs of a table in the order a SELECT without ORDER BY visits its
\* rows: no table has an index or a key of its own, so the statement walks
\* the table itself, which sqlite keeps by ROWID.
SqlTableScan(rows) == [i \in 1..Len(rows) |-> i]

\* The ROWIDs of the result rows of a SELECT with a WHERE clause, in the
\* order of the scan.
SqlRowsWhere(rows, wh) ==
    SelectSeq(SqlTableScan(rows),
              LAMBDA i : /\ wh.ok
                         /\ rows[i].path = wh.path
                         /\ wh.any \/ rows[i].centrality = wh.centrality)

\* The ROWIDs of the rows that select_wallpaper_record collects.
WallpaperHits(db, w) == SqlRowsWhere(db.wallpaper, WallpaperWhere(w))

\* A bool is written into the query as true / false, which sqlite reads
\* as the integers 1 / 0.
SqlBool(b) == IF b THEN 1 ELSE 0

i64_to_bool(num) == num # 0

U8TryFrom(v) == [ok |-> v >= 0 /\ v <= 255, val |-> v]
U16TryFrom(v) == [ok |-> v >= 0 /\ v <= 65535, val |-> v]

\* The Wallpaper and the ROWID that select_wallpaper_record builds from the
\* row found first (.first() of the rows), or the Err of no row and of a
\* centrality text that is no Centrality.
FirstWallpaper(rows, w, rowid) ==
    IF rowid = 0 \/ ~CentralityFromStr(rows[rowid].centrality).ok
    THEN [ok |-> FALSE, wallpaper |-> w, rowid |-> 0]
    ELSE [ok |-> TRUE,
          wallpaper |-> Wallpaper(rows[rowid].path,
                                  CentralityFromStr(rows[rowid].centrality).val),
          rowid |-> rowid]

\* .first() of the collected rows: the ROWID of the first result row, 0
\* for no row.
FirstRowid(hits) == IF hits = <<>> THEN 0 ELSE Head(hits)

\* .last() of the collected rows, 0 for no row.
LastRowid(hits) == IF hits = <<>> THEN 0 ELSE hits[Len(hits)]

\* Mutant of select_wallpaper_record: the last matching row is returned
\* (ORDER BY ROWID DESC).
select_wallpaper_record_last(db, w) ==
    FirstWallpaper(db.wallpaper, w, LastRowid(WallpaperHits(db, w)))

insert_wallpaper_record(db, w) ==
    LET st == InsertWallpaperStatement(w)
    IN  [ok |-> st.ok,
         db |-> [db EXCEPT !.wallpaper =
                   IF st.deleted THEN <<>> ELSE @ \o st.rows]]

select_wallpaper_record(db, w) ==
    FirstWallpaper(db.wallpaper, w, FirstRowid(WallpaperHits(db, w)))

\* The VALUES list of insert_color_themes_record.
ColorThemesRow(ct, wid) ==
    [darker |-> ct.darker, lighter |-> ct.lighter,
     complementary |-> SqlBool(ct.complementary),
     contrast |-> SqlBool(ct.contrast),
     hueOffset |-> ct.hue_offset,
     triadic |-> SqlBool(ct.triadic),
     quadratic |-> SqlBool(ct.quadratic),
     tetratic |-> SqlBool(ct.tetratic),
     analogous |-> SqlBool(ct.analogous),
     splitComplementary |-> SqlBool(ct.split_complementary),
     monochromatic |-> ct.monochromatic, shades |-> ct.shades,
     tints |-> ct.tints, tones |-> ct.tones, blends |-> ct.blends,
     wallpaper |-> wid]

\* Mutant of insert_color_themes_record: the row is written although no
\* wallpaper row was found (the ? after select_wallpaper_record is lost).
insert_color_themes_record_unchecked(db, ct, w) ==
    LET sw == select_wallpaper_record(db, w)
    IN  [ok |-> TRUE,
         db |-> [db EXCEPT !.color_themes =
                   Append(@, ColorThemesRow(ct, sw.rowid))]]

insert_color_themes_record(db, ct, w) ==
    LET sw == select_wallpaper_record(db, w)
    IN  IF ~sw.ok THEN [ok |-> FALSE, db |-> db]
        ELSE [ok |-> TRUE,
              db |-> [db EXCEPT !.color_themes =
                        Append(@, ColorThemesRow(ct, sw.rowid))]]

\* The WHERE clause of select_color_themes_record.
ColorThemesWhere(row, ct, wid) ==
    /\ row.darker = ct.darker
    /\ row.lighter = ct.lighter
    /\ row.complementary = SqlBool(ct.complementary)
    /\ row.contrast = SqlBool(ct.contrast)
    /\ row.hueOffset = ct.hue_offset
    /\ row.triadic = SqlBool(ct.triadic)
    /\ row.quadratic = SqlBool(ct.quadratic)
    /\ row.tetratic = SqlBool(ct.tetratic)
    /\ row.analogous = SqlBool(ct.analogous)
    /\ row.splitComplementary = SqlBool(ct.split_complementary)
    /\ row.monochromatic = ct.monochromatic
    /\ row.shades = ct.shades
    /\ row.tints = ct.tints
    /\ row.tones = ct.tones
    /\ row.blends = ct.blends
    /\ row.wallpaper = wid

\* The ColorThemeOption select_color_themes_record builds from a row
\* (monochromatic is read from the column "lighter").
ColorThemeOptionOfRow(row) ==
    [darker |-> row.darker, lighter |-> row.lighter,
     complementary |-> i64_to_bool(row.complementary),
     contrast |-> i64_to_bool(row.contrast),
     hue_offset |-> row.hueOffset,
     triadic |-> i64_to_bool(row.triadic),
     quadratic |-> i64_to_bool(row.quadratic),
     tetratic |-> i64_to_bool(row.tetratic),
     analogous |-> i64_to_bool(row.analogous),
     split_complementary |-> i64_to_bool(row.splitComplementary),
     monochromatic |-> row.lighter, shades |-> row.shades,
     tints |-> row.tints, tones |-> row.tones, blends |-> row.blends]

select_color_themes_record(db, ct, w) ==
    LET sw == select_wallpaper_record(db, w)
        hits == SelectSeq(SqlTableScan(db.color_themes),
                          LAMBDA i : /\ sw.ok
                                     /\ ColorThemesWhere(db.color_themes[i],
                                                         ct, sw.rowid))
        none == [ok |-> FALSE, color_themes |-> ct, rowid |-> 0]
    IN  IF ~sw.ok \/ hits = <<>> THEN none
        ELSE LET row == db.color_themes[FirstRowid(hits)]
             IN  IF /\ U8TryFrom(row.darker).ok
                    /\ U8TryFrom(row.lighter).ok
                    /\ U16TryFrom(row.hueOffset).ok
                    /\ U8TryFrom(row.shades).ok
                    /\ U8TryFrom(row.tints).ok
                    /\ U8TryFrom(row.tones).ok
                    /\ U8TryFrom(row.blends).ok
                 THEN [ok |-> TRUE,
                       color_themes |-> ColorThemeOptionOfRow(row),
                       rowid |-> FirstRowid(hits)]
                 ELSE none

insert_rgb_record(db, c, w, ct) ==
    LET sw == select_wallpaper_record(db, w)
        sc == select_color_themes_record(db, ct, w)
    IN  IF ~sw.ok \/ ~sc.ok THEN [ok |-> FALSE, db |-> db]
        ELSE [ok |-> TRUE,
              db |-> [db EXCEPT !.rgb =
                        Append(@, [RGB |-> RGBDisplay(c),
                                   wallpaper |-> sw.rowid,
                                   color_themes |-> sc.rowid])]]

\* ok = FALSE is the Err of a missing wallpaper or color_themes row;
\* panic is the unwrap of a stored text that is no colour.
select_rgb_records(db, w, ct) ==
    LET sw == select_wallpaper_record(db, w)
        sc == select_color_themes_record(db, ct, w)
        rows == SelectSeq(db.rgb,
                          LAMBDA r : /\ r.wallpaper = sw.rowid
                                     /\ r.color_themes = sc.rowid)
    IN  IF ~sw.ok \/ ~sc.ok
        THEN [ok |-> FALSE, panic |-> FALSE, val |-> <<>>]
        ELSE IF \E i \in 1..Len(rows) : ~RGBFromStr(rows[i].RGB).ok
        THEN [ok |-> FALSE, panic |-> TRUE, val |-> <<>>]
        ELSE [ok |-> TRUE, panic |-> FALSE,
              val |-> [i \in 1..Len(rows) |-> RGBFromStr(rows[i].RGB).val]]

(***************************************************************************)
(* The whole insert of one palette under one key, as the cache's caller    *)
(* performs it: the wallpaper row, then the color_themes row, then one     *)
(* RGB row per colour in the caller's order.  The first failing call       *)
(* ends it (each call is followed by ?).                                   *)
(***************************************************************************)
RECURSIVE insert_rgb_records(_, _, _, _)
insert_rgb_records(db, colors, w, ct) ==
    IF colors = <<>> THEN [ok |-> TRUE, db |-> db]
    ELSE LET r == insert_rgb_record(db, Head(colors), w, ct)
         IN  IF ~r.ok THEN r
             ELSE insert_rgb_records(r.db, Tail(colors), w, ct)

insert(db, w, ct, colors) ==
    LET r1 == insert_wallpaper_record(db, w)
        r2 == insert_color_themes_record(r1.db, ct, w)
    IN  IF ~r1.ok THEN r1
        ELSE IF ~r2.ok THEN r2
        ELSE insert_rgb_records(r2.db, colors, w, ct)

lookup(db, w, ct) == select_rgb_records(db, w, ct)

(***************************************************************************)
(* Inputs of the cache operations.                                         *)
(***************************************************************************)
Key(w, ct) == [w |-> w, ct |-> ct]

\* The path a','b');DELETE FROM wallpaper-- .
DeletePath ==
    <<"a", "'", ",", "'", "b", "'", ")", ";", "D", "E", "L", "E", "T", "E",
      " ", "F", "R", "O", "M", " ", "w", "a", "l", "l", "p", "a", "p", "e",
      "r", "-", "-">>

\* Keys that differ in the path, in the centrality, in the value of one
\* option field, and in which option field is set.  One path holds
\* quotes: '||'a .
Keys ==
    {k \in
        {Key(Wallpaper(<<"a">>, "Average"), DefaultOption),
         Key(Wallpaper(<<"a">>, "Average"), [DefaultOption EXCEPT !.darker = 10]),
         Key(Wallpaper(<<"a">>, "Prevalent"), [DefaultOption EXCEPT !.darker = 10]),
         Key(Wallpaper(<<"b">>, "Average"), [DefaultOption EXCEPT !.complementary = TRUE]),
         Key(Wallpaper(<<"'", "|", "|", "'", "a">>, "Average"), DefaultOption)} :
        SqlPath(k.w.path)}

\* The keys of whole inserts: those of Keys, and four more, one of them
\* with the path a'b and one with DeletePath.
InsertKeys ==
    Keys \cup
    {k \in
        {Key(Wallpaper(<<"a">>, "Average"), [DefaultOption EXCEPT !.darker = 11]),
         Key(Wallpaper(<<"b">>, "Average"), DefaultOption),
         Key(Wallpaper(<<"a", "'", "b">>, "Average"), DefaultOption),
         Key(Wallpaper(DeletePath, "Average"), DefaultOption)} :
        SqlPath(k.w.path)}

Wallpapers == {k.w : k \in Keys}

Options == {k.ct : k \in Keys}

Colors == {RGB(200, 100, 50), RGB(0, 255, 10)}

Palettes ==
    {<<RGB(200, 100, 50)>>,
     <<RGB(200, 100, 50), RGB(0, 255, 10)>>,
     <<RGB(0, 255, 10), RGB(200, 100, 50)>>}

Call(op, w, ct, colors, ok, val) ==
    [op |-> op, w |-> w, ct |-> ct, colors |-> colors, ok |-> ok, val |-> val]

Rows == Len(wallpaper) + Len(color_themes) + Len(rgb)

\* main's variables while no process of main runs.
MainIdle ==
    /\ pc = <<>>
    /\ req = <<>>
    /\ theme = <<>>
    /\ cursor = <<>>
    /\ trace = <<>>
    /\ offered = {}
    /\ completed = {}
    /\ failures = 0
    /\ requests = 0

StatIdle ==
    /\ pixels = <<>>
    /\ stat = [fn |-> "none", arg |-> <<>>, ok |-> TRUE, val |-> <<>>]

Init ==
    /\ wallpaper = new.wallpaper
    /\ color_themes = new.color_themes
    /\ rgb = new.rgb
    /\ last = Call("new", Wallpaper(<<>>, "Average"), DefaultOption, <<>>, TRUE, <<>>)
    /\ prev = new
    /\ inserted = {}
    /\ MainIdle
    /\ StatIdle

\* The tables become those of the database value db.
Store(db) ==
    /\ wallpaper' = db.wallpaper
    /\ color_themes' = db.color_themes
    /\ rgb' = db.rgb

InsertWallpaperRecord ==
    \E w \in Wallpapers :
        LET r == insert_wallpaper_record(DB, w)
        IN  /\ Rows < MaxRows
            /\ Store(r.db)
            /\ last' = Call("insert_wallpaper_record", w, DefaultOption, <<>>, r.ok, <<>>)
            /\ prev' = DB
            /\ UNCHANGED <<inserted, mainvars, statvars>>

InsertColorThemesRecord ==
    \E k \in Keys : LET w == k.w ct == k.ct IN
        LET r == insert_color_themes_record(DB, ct, w)
        IN  /\ Rows < MaxRows
            /\ Store(r.db)
            /\ last' = Call("insert_color_themes_record", w, ct, <<>>, r.ok, <<>>)
            /\ prev' = DB
            /\ inserted' = IF r.ok THEN inserted \cup {k} ELSE inserted
            /\ UNCHANGED <<mainvars, statvars>>

InsertRgbRecord ==
    \E k \in Keys, c \in Colors : LET w == k.w ct == k.ct IN
        LET r == insert_rgb_record(DB, c, w, ct)
        IN  /\ Rows < MaxRows
            /\ Store(r.db)
            /\ last' = Call("insert_rgb_record", w, ct, <<c>>, r.ok, <<>>)
            /\ prev' = DB
            /\ UNCHANGED <<inserted, mainvars, statvars>>

SelectRgbRecords ==
    \E k \in Keys : LET w == k.w ct == k.ct IN
        LET r == select_rgb_records(DB, w, ct)
        IN  /\ last' = Call("select_rgb_records", w, ct, <<>>, r.ok, r.val)
            /\ prev' = DB
            /\ UNCHANGED <<dbvars, inserted, mainvars, statvars>>

\* A later invocation opens the cache file, which holds the tables.
New ==
    /\ Store(Connection(new_on(FileOf(DB), 1)))
    /\ last' = Call("new", Wallpaper(<<>>, "Average"), DefaultOption, <<>>, TRUE, <<>>)
    /\ prev' = DB
    /\ UNCHANGED <<inserted, mainvars, statvars>>

Next ==
    \/ New
    \/ InsertWallpaperRecord
    \/ InsertColorThemesRecord
    \/ InsertRgbRecord
    \/ SelectRgbRecords

Spec == Init /\ [][Next]_vars

(***************************************************************************)
(* SpecInsert: whole inserts and lookups on one connection.                *)
(***************************************************************************)
Insert ==
    \E k \in InsertKeys, colors \in Palettes : LET w == k.w ct == k.ct IN
        LET r == insert(DB, w, ct, colors)
        IN  /\ Len(color_themes) < MaxInserts
            /\ Store(r.db)
            /\ last' = Call("insert", w, ct, colors, r.ok, <<>>)
            /\ prev' = DB
            /\ inserted' = inserted \cup {k}
            /\ UNCHANGED <<mainvars, statvars>>

Lookup ==
    \E k \in InsertKeys : LET w == k.w ct == k.ct IN
        LET r == lookup(DB, w, ct)
        IN  /\ last' = Call("lookup", w, ct, <<>>, r.ok, r.val)
            /\ prev' = DB
            /\ UNCHANGED <<dbvars, inserted, mainvars, statvars>>

NextInsert ==
    \/ Insert
    \/ Lookup

SpecInsert == Init /\ [][NextInsert]_vars

(***************************************************************************)
(* theme_calculation.rs: the pixel statistics.  A pixel is image::Rgb<u8>, *)
(* a triple <<red, green, blue>>.                                          *)
(***************************************************************************)
Panic == [ok |-> FALSE, val |-> <<>>]

RECURSIVE SumChannel(_, _)
SumChannel(ps, ch) ==
    IF ps = <<>> THEN 0 ELSE Head(ps)[ch] + SumChannel(Tail(ps), ch)

\* pixels.par_iter().map(..).sum::<usize>(): rayon sums the two parts of a
\* split of the sequence and adds the partial sums.
ParSum(ps, ch, split) ==
    SumChannel(SubSeq(ps, 1, split), ch)
        + SumChannel(SubSeq(ps, split + 1, Len(ps)), ch)

\* Mutant of average_pixel: the quotient is rounded to the nearest integer
\* instead of truncated.
average_pixel_rounded(ps, split) ==
    IF Len(ps) = 0 THEN Panic
    ELSE LET q(ch) == (ParSum(ps, ch, split) + (Len(ps) \div 2)) \div Len(ps)
         IN  IF U8TryFrom(q(1)).ok /\ U8TryFrom(q(2)).ok /\ U8TryFrom(q(3)).ok
             THEN [ok |-> TRUE, val |-> RGB(q(1), q(2), q(3))]
             ELSE Panic

\* Mutant of average_pixel: each part of the split is divided by the pixel
\* count and the truncated quotients are added.
average_pixel_chunked(ps, split) ==
    IF Len(ps) = 0 THEN Panic
    ELSE LET q(ch) == (SumChannel(SubSeq(ps, 1, split), ch) \div Len(ps))
                        + (SumChannel(SubSeq(ps, split + 1, Len(ps)), ch)
                             \div Len(ps))
         IN  IF U8TryFrom(q(1)).ok /\ U8TryFrom(q(2)).ok /\ U8TryFrom(q(3)).ok
             THEN [ok |-> TRUE, val |-> RGB(q(1), q(2), q(3))]
             ELSE Panic

\* ok = FALSE is a panic: the division by pixels.len() = 0, or the unwrap
\* of u8::try_from.
average_pixel(ps, split) ==
    IF Len(ps) = 0 THEN Panic
    ELSE LET q(ch) == ParSum(ps, ch, split) \div Len(ps)
         IN  IF U8TryFrom(q(1)).ok /\ U8TryFrom(q(2)).ok /\ U8TryFrom(q(3)).ok
             THEN [ok |-> TRUE, val |-> RGB(q(1), q(2), q(3))]
             ELSE Panic

\* Mutant of HalvesAsUsize: a negative float wraps to a large index instead
\* of saturating at 0.
HalvesAsUsize_wrapping(twice) == IF twice < 0 THEN 65535 ELSE twice \div 2

\* f64 as usize: the fraction is dropped and a negative value becomes 0.
\* The argument is twice the float (the floats here are multiples of 0.5).
HalvesAsUsize(twice) == IF twice <= 0 THEN 0 ELSE twice \div 2

\* A 0-based index into a slice; ok = FALSE is the out-of-bounds panic.
Index0(slice, i) ==
    IF i < Len(slice) THEN [ok |-> TRUE, val |-> slice[i + 1]] ELSE Panic

\* Mutant of median: an odd-length slice gives its exact middle element.
median_conventional(color_slice) ==
    LET n == Len(color_slice)
    IN  IF n % 2 = 0
        THEN LET left_middle == Index0(color_slice, HalvesAsUsize(n - 2))
                 right_middle == Index0(color_slice, HalvesAsUsize(n))
             IN  IF left_middle.ok /\ right_middle.ok
                 THEN [ok |-> TRUE,
                       val |-> (right_middle.val + left_middle.val) \div 2]
                 ELSE Panic
        ELSE Index0(color_slice, HalvesAsUsize(n))

median(color_slice) ==
    LET n == Len(color_slice)
    IN  IF n % 2 = 0
        THEN LET left_middle == Index0(color_slice, HalvesAsUsize(n - 2))
                 right_middle == Index0(color_slice, HalvesAsUsize(n))
             IN  IF left_middle.ok /\ right_middle.ok
                 THEN [ok |-> TRUE,
                       val |-> (right_middle.val + left_middle.val) \div 2]
                 ELSE Panic
        ELSE Index0(color_slice, HalvesAsUsize(n - 2))

\* Mutant of Channel: each channel is read from the next sub-pixel.
Channel_rotated(ps, ch) == [i \in 1..Len(ps) |-> ps[i][(ch % 3) + 1]]

Channel(ps, ch) == [i \in 1..Len(ps) |-> ps[i][ch]]

median_pixel(ps) ==
    LET r == median(Channel(ps, 1))
        g == median(Channel(ps, 2))
        b == median(Channel(ps, 3))
    IN  IF r.ok /\ g.ok /\ b.ok
        THEN [ok |-> TRUE, val |-> RGB(r.val, g.val, b.val)]
        ELSE Panic

\* pixel_prevalence_count: the distinct pixels and their counts.
DistinctPixels(ps) == {ps[i] : i \in 1..Len(ps)}

PrevalenceCount(ps, px) == Cardinality({i \in 1..Len(ps) : ps[i] = px})

\* Mutant of MostPrevalentOrders: the sort_by is left out.
MostPrevalentOrders_unsorted(ps) ==
    LET D == DistinctPixels(ps)
    IN  {o \in [1..Cardinality(D) -> D] :
            \A i, j \in 1..Cardinality(D) : i # j => o[i] # o[j]}

\* The orders most_prevalent can have after sort_by: the HashMap yields
\* the distinct pixels in any order and the sort orders them by descending
\* count only.
MostPrevalentOrders(ps) ==
    LET D == DistinctPixels(ps)
    IN  {o \in [1..Cardinality(D) -> D] :
            /\ \A i, j \in 1..Cardinality(D) : i # j => o[i] # o[j]
            /\ \A i, j \in 1..Cardinality(D) :
                  i < j => PrevalenceCount(ps, o[i]) >= PrevalenceCount(ps, o[j])}

\* Mutant of prevalent_pixel: number_of_themes is not applied.
prevalent_pixel_untruncated(ps, number_of_themes) ==
    LET d == Cardinality(DistinctPixels(ps))
    IN  {[i \in 1..d |-> RGB(o[i][1], o[i][2], o[i][3])] :
            o \in MostPrevalentOrders(ps)}

\* The set of values prevalent_pixel can return.
prevalent_pixel(ps, number_of_themes) ==
    LET d == Cardinality(DistinctPixels(ps))
        m == IF d > number_of_themes THEN number_of_themes ELSE d
    IN  {[i \in 1..m |-> RGB(o[i][1], o[i][2], o[i][3])] :
            o \in MostPrevalentOrders(ps)}

complementary_color(c) == RGB(255 - c.red, 255 - c.green, 255 - c.blue)

\* Mutant of calculate_color_theme: the text is black from 128 on.
calculate_color_theme_ge(c) ==
    LET workspace_color == complementary_color(c)
    IN  [bar_color |-> c,
         workspace_color |-> workspace_color,
         text_color |->
            IF /\ workspace_color.red >= 128
               /\ workspace_color.blue >= 128
               /\ workspace_color.green >= 128
            THEN RGB(0, 0, 0)
            ELSE RGB(255, 255, 255)]

calculate_color_theme(c) ==
    LET workspace_color == complementary_color(c)
    IN  [bar_color |-> c,
         workspace_color |-> workspace_color,
         text_color |->
            IF /\ workspace_color.red > 128
               /\ workspace_color.blue > 128
               /\ workspace_color.green > 128
            THEN RGB(0, 0, 0)
            ELSE RGB(255, 255, 255)]

\* Mutant of generate_color_theme: number_of_themes limits the themes of
\* Average and Median too.
generate_color_theme_counted(ps, centrality, number_of_themes) ==
    LET bar_colors ==
            CASE centrality = "Average" ->
                    {IF average_pixel(ps, k).ok
                     THEN [ok |-> TRUE, val |-> <<average_pixel(ps, k).val>>]
                     ELSE Panic : k \in 0..Len(ps)}
              [] centrality = "Median" ->
                    {IF median_pixel(ps).ok
                     THEN [ok |-> TRUE, val |-> <<median_pixel(ps).val>>]
                     ELSE Panic}
              [] centrality = "Prevalent" ->
                    {[ok |-> TRUE, val |-> v] :
                        v \in prevalent_pixel(ps, number_of_themes)}
    IN  {IF ~b.ok THEN Panic
         ELSE IF centrality = "Prevalent"
              THEN [ok |-> TRUE,
                    val |-> [i \in 1..Len(b.val) |-> calculate_color_theme(b.val[i])]]
              ELSE IF Len(b.val) = 0 THEN Panic
              ELSE [ok |-> TRUE,
                    val |-> IF number_of_themes = 0 THEN <<>>
                            ELSE <<calculate_color_theme(b.val[1])>>]
         : b \in bar_colors}

\* The set of outcomes of generate_color_theme on the decoded pixels; ok =
\* FALSE is a panic of the statistic.
generate_color_theme(ps, centrality, number_of_themes) ==
    LET bar_colors ==
            CASE centrality = "Average" ->
                    {IF average_pixel(ps, k).ok
                     THEN [ok |-> TRUE, val |-> <<average_pixel(ps, k).val>>]
                     ELSE Panic : k \in 0..Len(ps)}
              [] centrality = "Median" ->
                    {IF median_pixel(ps).ok
                     THEN [ok |-> TRUE, val |-> <<median_pixel(ps).val>>]
                     ELSE Panic}
              [] centrality = "Prevalent" ->
                    {[ok |-> TRUE, val |-> v] :
                        v \in prevalent_pixel(ps, number_of_themes)}
    IN  {IF ~b.ok THEN Panic
         ELSE IF centrality = "Prevalent"
              THEN [ok |-> TRUE,
                    val |-> [i \in 1..Len(b.val) |-> calculate_color_theme(b.val[i])]]
              ELSE IF Len(b.val) = 0 THEN Panic
              ELSE [ok |-> TRUE, val |-> <<calculate_color_theme(b.val[1])>>]
         : b \in bar_colors}

(***************************************************************************)
(* SpecStat: a statistic applied to a bounded pixel sequence.              *)
(***************************************************************************)
PixelValues == {<<200, 100, 50>>, <<0, 255, 10>>, <<255, 255, 255>>}

PixelSeqs == UNION {[1..n -> PixelValues] : n \in 0..MaxPixels}

InitStat ==
    /\ wallpaper = new.wallpaper
    /\ color_themes = new.color_themes
    /\ rgb = new.rgb
    /\ last = Call("new", Wallpaper(<<>>, "Average"), DefaultOption, <<>>, TRUE, <<>>)
    /\ prev = new
    /\ inserted = {}
    /\ MainIdle
    /\ pixels \in PixelSeqs
    /\ stat = [fn |-> "none", arg |-> <<>>, ok |-> TRUE, val |-> <<>>]

AveragePixel ==
    \E split \in 0..Len(pixels) :
        LET r == average_pixel(pixels, split)
        IN  /\ stat.fn = "none"
            /\ stat' = [fn |-> "average_pixel", arg |-> split,
                        ok |-> r.ok, val |-> r.val]
            /\ UNCHANGED <<pixels, dbvars, apivars, mainvars>>

MedianPixel ==
    LET r == median_pixel(pixels)
    IN  /\ stat.fn = "none"
        /\ stat' = [fn |-> "median_pixel", arg |-> <<>>,
                    ok |-> r.ok, val |-> r.val]
        /\ UNCHANGED <<pixels, dbvars, apivars, mainvars>>

\* number_of_themes is a u8; the model draws it from 0..MaxThemes.
PrevalentPixel ==
    \E number_of_themes \in 0..MaxThemes :
        \E r \in prevalent_pixel(pixels, number_of_themes) :
            /\ stat.fn = "none"
            /\ stat' = [fn |-> "prevalent_pixel", arg |-> number_of_themes,
                        ok |-> TRUE, val |-> r]
            /\ UNCHANGED <<pixels, dbvars, apivars, mainvars>>

\* generate_color_theme on an image that decodes to pixels.
GenerateColorTheme ==
    \E centrality \in Centrality, number_of_themes \in 0..MaxThemes :
        \E r \in generate_color_theme(pixels, centrality, number_of_themes) :
            /\ stat.fn = "none"
            /\ stat' = [fn |-> "generate_color_theme",
                        arg |-> [centrality |-> centrality,
                                 number_of_themes |-> number_of_themes],
                        ok |-> r.ok, val |-> r.val]
            /\ UNCHANGED <<pixels, dbvars, apivars, mainvars>>

NextStat ==
    \/ AveragePixel
    \/ MedianPixel
    \/ PrevalentPixel
    \/ GenerateColorTheme

SpecStat == InitStat /\ [][NextStat]_vars

\* C10: for every non-empty pixel sequence average_pixel returns a colour
\* (no panic) whose every channel is a byte q with
\* q * count <= sum of the channel < (q + 1) * count, that is
\* floor(sum / count); the result is therefore the same however the
\* parallel sum was split.
C10_AverageIsFloor ==
    (stat.fn = "average_pixel" /\ pixels # <<>>)
        => /\ stat.ok
           /\ LET n == Len(pixels)
                  q == <<stat.val.red, stat.val.green, stat.val.blue>>
              IN  \A ch \in 1..3 :
                     /\ q[ch] \in 0..255
                     /\ q[ch] * n <= SumChannel(pixels, ch)
                     /\ SumChannel(pixels, ch) < (q[ch] + 1) * n

\* C10 witness: average_pixel was applied to three pixels whose red sum is
\* not a multiple of three, and gave the truncated quotient.
C10_Witness ==
    /\ stat.fn = "average_pixel"
    /\ Len(pixels) = 3
    /\ SumChannel(pixels, 1) % 3 = 2
    /\ stat.ok
    /\ stat.val.red * 3 + 2 = SumChannel(pixels, 1)

\* The channels of a colour in the order of a pixel's channels.
ChannelsOf(c) == <<c.red, c.green, c.blue>>

\* The i-th smallest value of the slice s (1-based, with repetitions).
KthSmallest(s, i) ==
    CHOOSE v \in {s[j] : j \in 1..Len(s)} :
        /\ Cardinality({j \in 1..Len(s) : s[j] < v}) < i
        /\ i <= Cardinality({j \in 1..Len(s) : s[j] <= v})

\* C11: for an even pixel count (at least two pixels) median_pixel
\* returns a colour, and each of its channels is the truncated average of
\* the two middle values of that channel's values sorted ascending, so
\* that the order of the pixels in the image does not matter.
C11_MedianOfSorted ==
    (stat.fn = "median_pixel" /\ Len(pixels) >= 2 /\ Len(pixels) % 2 = 0)
        => /\ stat.ok
           /\ LET n == Len(pixels)
              IN  \A ch \in 1..3 :
                     ChannelsOf(stat.val)[ch] =
                        (KthSmallest(Channel(pixels, ch), n \div 2)
                           + KthSmallest(Channel(pixels, ch), (n \div 2) + 1))
                        \div 2

\* C12: on a slice s of even length n >= 2 median returns the truncated
\* average of s[n/2 - 1] and s[n/2], and on a slice of odd length n >= 3
\* it returns s[(n-1)/2 - 1], the element one position below the middle
\* (indices counted from 0); checked on each channel of median_pixel.
C12_MedianPlacement ==
    (stat.fn = "median_pixel" /\ Len(pixels) >= 2)
        => /\ stat.ok
           /\ LET n == Len(pixels)
              IN  \A ch \in 1..3 :
                     LET s == Channel(pixels, ch)
                     IN  ChannelsOf(stat.val)[ch] =
                            IF n % 2 = 0
                            THEN (s[n \div 2] + s[(n \div 2) + 1]) \div 2
                            ELSE s[(n - 1) \div 2]

\* C12 witness: median_pixel was applied to three pixels whose first two
\* red values differ, and the red channel of the result is the first
\* value, not the middle one.
C12_Witness ==
    /\ stat.fn = "median_pixel"
    /\ Len(pixels) = 3
    /\ pixels[1][1] # pixels[2][1]
    /\ stat.ok
    /\ stat.val.red = pixels[1][1]

\* C13: prevalent_pixel(pixels, k) returns exactly min(k, number of
\* distinct pixels) colours, pairwise distinct, each the colour of a
\* pixel of the input; for k = 0 the list is empty.
C13_PrevalentCount ==
    stat.fn = "prevalent_pixel"
        => LET k == stat.arg
               d == Cardinality(DistinctPixels(pixels))
               out == stat.val
           IN  /\ Len(out) = IF k < d THEN k ELSE d
               /\ \A i, j \in 1..Len(out) : i # j => out[i] # out[j]
               /\ \A i \in 1..Len(out) :
                     \E p \in 1..Len(pixels) : ChannelsOf(out[i]) = pixels[p]
               /\ k = 0 => out = <<>>

\* C13 witness: prevalent_pixel was asked for two colours of an image with
\* three distinct pixels and returned two.
C13_Witness ==
    /\ stat.fn = "prevalent_pixel"
    /\ stat.arg = 2
    /\ Cardinality(DistinctPixels(pixels)) = 3
    /\ Len(stat.val) = 2

\* No two distinct pixels of ps occur equally often.
NoTiedCounts(ps) ==
    \A p, q \in DistinctPixels(ps) :
        p # q => PrevalenceCount(ps, p) # PrevalenceCount(ps, q)

\* C14: the colours prevalent_pixel returns are in descending order of
\* occurrence count, each occurs at least as often as every distinct pixel
\* that is not returned, and when no two distinct pixels have equal counts
\* the returned list is the only one the function can return.
C14_PrevalentOrder ==
    stat.fn = "prevalent_pixel"
        => LET out == stat.val
               count(i) == PrevalenceCount(pixels, ChannelsOf(out[i]))
               returned == {ChannelsOf(out[i]) : i \in 1..Len(out)}
           IN  /\ \A i, j \in 1..Len(out) : i < j => count(i) >= count(j)
               /\ \A i \in 1..Len(out) :
                     \A q \in DistinctPixels(pixels) \ returned :
                        count(i) >= PrevalenceCount(pixels, q)
               /\ NoTiedCounts(pixels)
                     => prevalent_pixel(pixels, stat.arg) = {out}

\* C14 witness: of two distinct pixels one occurs more often than the
\* other, one colour was asked for, and the more frequent one, which is not
\* the first pixel of the image, was returned.
C14_Witness ==
    /\ stat.fn = "prevalent_pixel"
    /\ stat.arg = 1
    /\ Cardinality(DistinctPixels(pixels)) = 2
    /\ NoTiedCounts(pixels)
    /\ Len(stat.val) = 1
    /\ ChannelsOf(stat.val[1]) # pixels[1]
    /\ PrevalenceCount(pixels, ChannelsOf(stat.val[1])) >= 2

\* C15: generate_color_theme on an empty pixel sequence ends in a failure
\* under every centrality; it never succeeds with a list of themes.
C15_EmptyPixelsFail ==
    (stat.fn = "generate_color_theme" /\ pixels = <<>>) => ~stat.ok

\* C16: under Average and under Median generate_color_theme returns
\* exactly one theme for every non-empty pixel sequence, whatever
\* number_of_themes is (0 included).
C16_OneThemeForAverageAndMedian ==
    (/\ stat.fn = "generate_color_theme"
     /\ pixels # <<>>
     /\ stat.arg.centrality \in {"Average", "Median"})
        => /\ stat.ok
           /\ Len(stat.val) = 1

\* C16 witness: generate_color_theme was called with Median and
\* number_of_themes = 0 on two pixels and returned one theme.
C16_Witness ==
    /\ stat.fn = "generate_color_theme"
    /\ stat.arg.centrality = "Median"
    /\ stat.arg.number_of_themes = 0
    /\ Len(pixels) = 2
    /\ stat.ok
    /\ Len(stat.val) = 1

\* C24: however the pixel sequence was split for the parallel sum, each
\* channel of average_pixel is the truncated quotient of the sum over all
\* pixels by the pixel count; it is not the sum of the truncated quotients
\* of the parts.
C24_AverageSplitIndependent ==
    (stat.fn = "average_pixel" /\ pixels # <<>>)
        => /\ stat.ok
           /\ \A ch \in 1..3 :
                 ChannelsOf(stat.val)[ch] =
                    SumChannel(pixels, ch) \div Len(pixels)
           /\ \A split \in 0..Len(pixels) :
                 average_pixel(pixels, split) = [ok |-> TRUE, val |-> stat.val]

\* C24 witness: three pixels were summed in the parts 1 + 2, the truncated
\* quotients of the two red part sums add up to less than the red channel
\* returned, which is the quotient of the whole sum.
C24_Witness ==
    /\ stat.fn = "average_pixel"
    /\ Len(pixels) = 3
    /\ stat.arg = 1
    /\ stat.ok
    /\ stat.val.red = SumChannel(pixels, 1) \div 3
    /\ (pixels[1][1] \div 3) + ((pixels[2][1] + pixels[3][1]) \div 3)
          < stat.val.red

\* All pixels of ps are the same pixel.
Uniform(ps) == ps # <<>> /\ \A i \in 1..Len(ps) : ps[i] = ps[1]

\* C26: when every pixel of a non-empty sequence is the same colour c,
\* average_pixel returns c, median_pixel returns c and prevalent_pixel with
\* k >= 1 returns the list of c alone; for c = (200,100,50) the text form
\* of the average is #c86432.
C26_UniformImage ==
    Uniform(pixels)
        => /\ stat.fn \in {"average_pixel", "median_pixel"}
                 => /\ stat.ok
                    /\ ChannelsOf(stat.val) = pixels[1]
           /\ (stat.fn = "prevalent_pixel" /\ stat.arg >= 1)
                 => /\ Len(stat.val) = 1
                    /\ ChannelsOf(stat.val[1]) = pixels[1]
           /\ (stat.fn = "average_pixel" /\ pixels[1] = <<200, 100, 50>>)
                 => RGBDisplay(stat.val) = <<"#", "c", "8", "6", "4", "3", "2">>

\* C26 witness: median_pixel was applied to three pixels (200,100,50) and
\* returned the colour written #c86432.
C26_Witness ==
    /\ stat.fn = "median_pixel"
    /\ pixels = <<<<200, 100, 50>>, <<200, 100, 50>>, <<200, 100, 50>>>>
    /\ stat.ok
    /\ RGBDisplay(stat.val) = <<"#", "c", "8", "6", "4", "3", "2">>

\* C29: median_pixel of a sequence of exactly one pixel returns that
\* pixel; the index computed for n = 1 is inside the slice.
C29_MedianOfOnePixel ==
    (stat.fn = "median_pixel" /\ Len(pixels) = 1)
        => /\ stat.ok
           /\ ChannelsOf(stat.val) = pixels[1]

\* C29 witness: median_pixel was applied to the single pixel (0,255,10) and
\* returned it.
C29_Witness ==
    /\ stat.fn = "median_pixel"
    /\ pixels = <<<<0, 255, 10>>>>
    /\ stat.ok
    /\ stat.val = RGB(0, 255, 10)

(***************************************************************************)
(* SpecColor: the functions of one colour, calculate_color_theme           *)
(* (theme_calculation.rs) and the text form of RGB (common.rs), applied    *)
(* to colours whose channels cover every hexadecimal digit and the values  *)
(* around 127.                                                             *)
(***************************************************************************)
ChannelValues == {0, 9, 10, 18, 52, 86, 126, 127, 128, 171, 205, 239, 255}

ColorValues == {RGB(r, g, b) : r, g, b \in ChannelValues}

\* A colour text with its digits a..f written as A..F.
ToUpperText(s) ==
    [i \in 1..Len(s) |->
        IF \E j \in 11..16 : s[i] = LowerHex[j]
        THEN UpperHex[CHOOSE j \in 11..16 : s[i] = LowerHex[j]]
        ELSE s[i]]

CalculateColorTheme ==
    \E c \in ColorValues :
        /\ stat.fn = "none"
        /\ stat' = [fn |-> "calculate_color_theme", arg |-> c,
                    ok |-> TRUE, val |-> calculate_color_theme(c)]
        /\ UNCHANGED <<pixels, dbvars, apivars, mainvars>>

\* c.to_string() and then from_str of that text, as written or with its
\* digits in upper case.
RgbText ==
    \E c \in ColorValues, upper \in BOOLEAN :
        LET text == RGBDisplay(c)
            given == IF upper THEN ToUpperText(text) ELSE text
            r == RGBFromStr(given)
        IN  /\ stat.fn = "none"
            /\ stat' = [fn |-> "rgb_text", arg |-> c, ok |-> r.ok,
                        val |-> [text |-> text, given |-> given, rgb |-> r.val]]
            /\ UNCHANGED <<pixels, dbvars, apivars, mainvars>>

NextColor ==
    \/ CalculateColorTheme
    \/ RgbText

SpecColor == Init /\ [][NextColor]_vars

\* C17: calculate_color_theme(c) has bar_color = c, workspace_color =
\* (255 - red, 255 - green, 255 - blue) of c, and text_color black when all
\* three workspace channels exceed 128 (every channel of c is below 127)
\* and white otherwise; c = (0,0,0) gives workspace (255,255,255) and text
\* (0,0,0).
C17_CalculateColorTheme ==
    stat.fn = "calculate_color_theme"
        => LET c == stat.arg
               t == stat.val
           IN  /\ t.bar_color = c
               /\ t.workspace_color.red + c.red = 255
               /\ t.workspace_color.green + c.green = 255
               /\ t.workspace_color.blue + c.blue = 255
               /\ t.text_color =
                     IF c.red < 127 /\ c.green < 127 /\ c.blue < 127
                     THEN RGB(0, 0, 0)
                     ELSE RGB(255, 255, 255)
               /\ c = RGB(0, 0, 0)
                     => /\ t.workspace_color = RGB(255, 255, 255)
                        /\ t.text_color = RGB(0, 0, 0)

\* C17 witness: calculate_color_theme of a colour one of whose channels is
\* 127 (workspace channel 128, not greater than 128) while the others are
\* smaller: the text is white.
C17_Witness ==
    /\ stat.fn = "calculate_color_theme"
    /\ stat.arg = RGB(127, 126, 0)
    /\ stat.val.workspace_color = RGB(128, 129, 255)
    /\ stat.val.text_color = RGB(255, 255, 255)

\* C18: for every colour c the text Display writes is '#' followed by six
\* lowercase hexadecimal digits, and from_str of that text, or of that
\* text with its digits upper-cased, returns c.
C18_TextRoundTrip ==
    stat.fn = "rgb_text"
        => /\ Len(stat.val.text) = 7
           /\ stat.val.text[1] = "#"
           /\ \A i \in 2..7 : \E j \in 1..16 : stat.val.text[i] = LowerHex[j]
           /\ stat.ok
           /\ stat.val.rgb = stat.arg

\* C18 witness: a colour with letter digits was written as #abcdef, read
\* back from #ABCDEF, and came back unchanged.
C18_Witness ==
    /\ stat.fn = "rgb_text"
    /\ stat.arg = RGB(171, 205, 239)
    /\ stat.val.text = <<"#", "a", "b", "c", "d", "e", "f">>
    /\ stat.val.given = <<"#", "A", "B", "C", "D", "E", "F">>
    /\ stat.ok
    /\ stat.val.rgb = RGB(171, 205, 239)

(***************************************************************************)
(* SpecMain: invocations of main (main.rs) on one cache file.  Each        *)
(* process is one run of the program; a step is one call of the cache     *)
(* (the opening of the file, a select, the INSERT of a row), the reading   *)
(* of the image file, the image decoding with the statistic, or the        *)
(* output.  The two cache functions main calls receive the image path      *)
(* only.                                                                   *)
(***************************************************************************)
Procs == {1, 2}

\* The image files: whether the format is recognised (is_image), whether
\* the file decodes (generate_color_theme), and the decoded pixels.  The
\* file A is no image.
PixelSource(image) ==
    CASE image = <<"a">> ->
            [format |-> TRUE, decodes |-> TRUE,
             pixels |-> <<<<200, 100, 50>>, <<200, 100, 50>>, <<0, 255, 10>>>>]
      [] image = <<"e">> ->
            [format |-> TRUE, decodes |-> TRUE, pixels |-> <<>>]
      [] image = <<"b">> ->
            [format |-> TRUE, decodes |-> FALSE, pixels |-> <<>>]
      [] OTHER ->
            [format |-> FALSE, decodes |-> FALSE, pixels |-> <<>>]

Args(image, centrality, n) ==
    [image |-> image, centrality |-> centrality, number_of_themes |-> n]

MainArgs ==
    {Args(<<"a">>, "Average", 1), Args(<<"a">>, "Prevalent", 1),
     Args(<<"e">>, "Average", 1), Args(<<"b">>, "Prevalent", 1),
     Args(<<"A">>, "Average", 1)}

\* The key the cache functions of main use for an image path.
CacheKey(image) == Key(Wallpaper(image, "Prevalent"), DefaultOption)

select_color_theme_by_image_path(db, image) ==
    lookup(db, CacheKey(image).w, CacheKey(image).ct)

\* The colours of a Vec<ColorTheme>, theme by theme.
RECURSIVE ThemeColors(_)
ThemeColors(themes) ==
    IF themes = <<>> THEN <<>>
    ELSE <<Head(themes).bar_color, Head(themes).workspace_color,
           Head(themes).text_color>> \o ThemeColors(Tail(themes))

NoTrace == [known |-> {}, computed |-> FALSE, hit |-> FALSE, failure |-> "none"]

InitMain ==
    /\ wallpaper = new.wallpaper
    /\ color_themes = new.color_themes
    /\ rgb = new.rgb
    /\ last = Call("new", Wallpaper(<<>>, "Average"), DefaultOption, <<>>, TRUE, <<>>)
    /\ prev = new
    /\ inserted = {}
    /\ pc = [p \in Procs |-> "idle"]
    /\ req = [p \in Procs |-> Args(<<"a">>, "Average", 1)]
    /\ theme = [p \in Procs |-> <<>>]
    /\ cursor = [p \in Procs |-> 0]
    /\ trace = [p \in Procs |-> NoTrace]
    /\ offered = {}
    /\ completed = {}
    /\ failures = 0
    /\ requests = 0
    /\ StatIdle

\* Whether the storage layer fails at a step.
StorageFails == IF failures < MaxFailures THEN {FALSE, TRUE} ELSE {FALSE}

Fail(p, what) ==
    /\ pc' = [pc EXCEPT ![p] = "failed"]
    /\ trace' = [trace EXCEPT ![p].failure = what]

\* A process starts: Args::parse reads the arguments.
Start(p) ==
    \E a \in MainArgs :
        /\ pc[p] \in {"idle", "done", "failed"}
        /\ requests < MaxRequests
        /\ requests' = requests + 1
        /\ req' = [req EXCEPT ![p] = a]
        /\ pc' = [pc EXCEPT ![p] = "is_image"]
        /\ theme' = [theme EXCEPT ![p] = <<>>]
        /\ cursor' = [cursor EXCEPT ![p] = 0]
        /\ trace' = [trace EXCEPT ![p] =
                        [NoTrace EXCEPT !.known = {c \in completed : c.args = a}]]
        /\ UNCHANGED <<dbvars, apivars, offered, completed, failures, statvars>>

\* is_image, the validator of the image argument, opens the cache
\* (with_prefix(..)?, place_cache_file(..)?, DatabaseConnection::new(..)?)
\* and returns the error when that fails.
IsImage(p) ==
    \E fails \in StorageFails :
        /\ pc[p] = "is_image"
        /\ failures' = IF fails THEN failures + 1 ELSE failures
        /\ IF fails
           THEN Fail(p, "is_image") /\ UNCHANGED dbvars
           ELSE /\ Store(Connection(new_on(FileOf(DB), 1)))
                /\ pc' = [pc EXCEPT ![p] = "is_image_select"]
                /\ UNCHANGED trace
        /\ UNCHANGED <<apivars, req, theme, cursor, offered, completed,
                       requests, statvars>>

\* is_image: match conn.select_color_theme_by_image_path(&path).  Ok(_)
\* accepts the argument; an Err, for a missing entry or for a storage
\* failure, leaves the decision to the format of the file.
IsImageSelect(p) ==
    \E fails \in StorageFails :
        LET r == select_color_theme_by_image_path(DB, req[p].image)
        IN  /\ pc[p] = "is_image_select"
            /\ failures' = IF fails THEN failures + 1 ELSE failures
            /\ pc' = [pc EXCEPT ![p] =
                        IF ~fails /\ r.ok THEN "new" ELSE "is_image_format"]
            /\ UNCHANGED <<dbvars, apivars, req, theme, cursor, trace, offered,
                           completed, requests, statvars>>

\* is_image: ImageReader::open(input)?.with_guessed_format()?.format()
\* .ok_or(..)? accepts a file whose format is recognised.
IsImageFormat(p) ==
    /\ pc[p] = "is_image_format"
    /\ IF PixelSource(req[p].image).format
       THEN /\ pc' = [pc EXCEPT ![p] = "new"]
            /\ UNCHANGED trace
       ELSE Fail(p, "is_image")
    /\ UNCHANGED <<dbvars, apivars, req, theme, cursor, offered, completed,
                   failures, requests, statvars>>

\* main: DatabaseConnection::new(&cache_path)? opens the cache again, and
\* main returns the error when that fails.
Open(p) ==
    \E fails \in StorageFails :
        /\ pc[p] = "new"
        /\ failures' = IF fails THEN failures + 1 ELSE failures
        /\ IF fails
           THEN Fail(p, "new") /\ UNCHANGED dbvars
           ELSE /\ Store(Connection(new_on(FileOf(DB), 1)))
                /\ pc' = [pc EXCEPT ![p] = "lookup"]
                /\ UNCHANGED trace
        /\ UNCHANGED <<apivars, req, theme, cursor, offered, completed,
                       requests, statvars>>

\* match conn.select_color_theme_by_image_path(&args.image):
\* Ok(c) => c, Err(_) => compute.  A storage failure of the select is an Err.
LookupStep(p) ==
    \E fails \in StorageFails :
        LET r == select_color_theme_by_image_path(DB, req[p].image)
        IN  /\ pc[p] = "lookup"
            /\ failures' = IF fails THEN failures + 1 ELSE failures
            /\ IF ~fails /\ r.ok
               THEN /\ theme' = [theme EXCEPT ![p] = r.val]
                    /\ pc' = [pc EXCEPT ![p] = "output"]
                    /\ trace' = [trace EXCEPT ![p].hit = TRUE]
               ELSE /\ pc' = [pc EXCEPT ![p] = "generate"]
                    /\ trace' = [trace EXCEPT ![p].failure =
                                    IF fails THEN "lookup" ELSE @]
                    /\ UNCHANGED theme
            /\ UNCHANGED <<dbvars, apivars, req, cursor, offered, completed,
                           requests, statvars>>

\* theme_calculation::generate_color_theme(..)?
Generate(p) ==
    /\ pc[p] = "generate"
    /\ IF ~PixelSource(req[p].image).decodes
       THEN /\ Fail(p, "pixel_source")
            /\ UNCHANGED <<theme, offered>>
       ELSE \E o \in generate_color_theme(PixelSource(req[p].image).pixels,
                                          req[p].centrality,
                                          req[p].number_of_themes) :
                IF ~o.ok
                THEN /\ Fail(p, "extraction")
                     /\ UNCHANGED <<theme, offered>>
                ELSE /\ theme' = [theme EXCEPT ![p] = ThemeColors(o.val)]
                     /\ offered' = offered \cup
                           {[image |-> req[p].image,
                             centrality |-> req[p].centrality,
                             colors |-> ThemeColors(o.val)]}
                     /\ pc' = [pc EXCEPT ![p] = "insert_wallpaper"]
                     /\ trace' = [trace EXCEPT ![p].computed = TRUE]
    /\ UNCHANGED <<dbvars, apivars, req, cursor, completed, failures,
                   requests, statvars>>

\* conn.insert_color_theme_record(&args.image, &theme)?: the wallpaper row.
InsertWallpaperStep(p) ==
    \E fails \in StorageFails :
        LET r == insert_wallpaper_record(DB, CacheKey(req[p].image).w)
        IN  /\ pc[p] = "insert_wallpaper"
            /\ failures' = IF fails THEN failures + 1 ELSE failures
            /\ IF fails
               THEN Fail(p, "insert") /\ UNCHANGED dbvars
               ELSE /\ Store(r.db)
                    /\ IF r.ok
                       THEN /\ pc' = [pc EXCEPT ![p] = "insert_color_themes"]
                            /\ UNCHANGED trace
                       ELSE Fail(p, "insert")
            /\ UNCHANGED <<apivars, req, theme, cursor, offered, completed,
                           requests, statvars>>

\* ... the color_themes row.
InsertColorThemesStep(p) ==
    \E fails \in StorageFails :
        LET k == CacheKey(req[p].image)
            r == insert_color_themes_record(DB, k.ct, k.w)
        IN  /\ pc[p] = "insert_color_themes"
            /\ failures' = IF fails THEN failures + 1 ELSE failures
            /\ IF fails \/ ~r.ok
               THEN Fail(p, "insert") /\ UNCHANGED dbvars
               ELSE /\ Store(r.db)
                    /\ pc' = [pc EXCEPT ![p] =
                                IF theme[p] = <<>> THEN "output" ELSE "insert_rgb"]
                    /\ UNCHANGED trace
            /\ UNCHANGED <<apivars, req, theme, cursor, offered, completed,
                           requests, statvars>>

\* ... one RGB row, the next colour of the palette.
InsertRgbStep(p) ==
    \E fails \in StorageFails :
        LET k == CacheKey(req[p].image)
            r == insert_rgb_record(DB, theme[p][cursor[p] + 1], k.w, k.ct)
        IN  /\ pc[p] = "insert_rgb"
            /\ failures' = IF fails THEN failures + 1 ELSE failures
            /\ IF fails \/ ~r.ok
               THEN Fail(p, "insert") /\ UNCHANGED <<dbvars, cursor>>
               ELSE /\ Store(r.db)
                    /\ cursor' = [cursor EXCEPT ![p] = @ + 1]
                    /\ pc' = [pc EXCEPT ![p] =
                                IF cursor[p] + 1 = Len(theme[p])
                                THEN "output" ELSE "insert_rgb"]
                    /\ UNCHANGED trace
            /\ UNCHANGED <<apivars, req, theme, offered, completed,
                           requests, statvars>>

\* The palette is printed and main returns Ok(()).
Output(p) ==
    /\ pc[p] = "output"
    /\ pc' = [pc EXCEPT ![p] = "done"]
    /\ completed' = IF trace[p].computed
                    THEN completed \cup {[args |-> req[p], colors |-> theme[p]]}
                    ELSE completed
    /\ UNCHANGED <<dbvars, apivars, req, theme, cursor, trace, offered,
                   failures, requests, statvars>>

NextMain ==
    \/ \E p \in Procs : Start(p)
    \/ \E p \in Procs : IsImage(p)
    \/ \E p \in Procs : IsImageSelect(p)
    \/ \E p \in Procs : IsImageFormat(p)
    \/ \E p \in Procs : Open(p)
    \/ \E p \in Procs : LookupStep(p)
    \/ \E p \in Procs : Generate(p)
    \/ \E p \in Procs : InsertWallpaperStep(p)
    \/ \E p \in Procs : InsertColorThemesStep(p)
    \/ \E p \in Procs : InsertRgbStep(p)
    \/ \E p \in Procs : Output(p)

SpecMain == InitMain /\ [][NextMain]_vars

(***************************************************************************)
(* Properties of the cache.                                                *)
(***************************************************************************)
Hit(colors) == [ok |-> TRUE, panic |-> FALSE, val |-> colors]

\* The key of the last call had no color_themes row before the call.
LastKeyFresh == ~select_color_themes_record(prev, last.ct, last.w).ok

\* C1 (as claimed): round trip.  After a whole insert of a palette under a
\* key that had not been inserted before (all options default, or one
\* option set), whatever its path, the insert has succeeded and
\* select_rgb_records for the key returns exactly the inserted colours in
\* the inserted order.
C1_RoundTrip ==
    (/\ last.op = "insert"
     /\ LastKeyFresh
     /\ Cardinality(NonDefaultFields(last.ct)) <= 1)
        => /\ last.ok
           /\ lookup(DB, last.w, last.ct) = Hit(last.colors)

\* C2 (as claimed): duplicate inserts are inert.  After a second whole
\* insert of the same colours under a key whose lookup already returned
\* exactly those colours, the lookup still returns exactly those colours.
C2_DuplicateInsertInert ==
    (/\ last.op = "insert"
     /\ last.ok
     /\ lookup(prev, last.w, last.ct) = Hit(last.colors))
        => lookup(DB, last.w, last.ct) = Hit(last.colors)

\* C3 (as claimed): exact match.  In every state, select_rgb_records
\* succeeds for a key only if a color_themes row was inserted for exactly
\* that key (path, centrality and every option value); on the empty store
\* every key misses.
C3_ExactMatch ==
    \A k \in Keys : select_rgb_records(DB, k.w, k.ct).ok => k \in inserted

\* C4 (as claimed): referential integrity.  In every state that the
\* inserts reach, whatever the paths of their keys, every color_themes row
\* references an existing wallpaper row; every RGB row references an
\* existing wallpaper row and an existing color_themes row that references
\* that same wallpaper row.
C4_ReferentialIntegrity ==
    /\ \A i \in 1..Len(color_themes) :
          color_themes[i].wallpaper \in 1..Len(wallpaper)
    /\ \A i \in 1..Len(rgb) :
          /\ rgb[i].wallpaper \in 1..Len(wallpaper)
          /\ rgb[i].color_themes \in 1..Len(color_themes)
          /\ color_themes[rgb[i].color_themes].wallpaper = rgb[i].wallpaper

ParentMissing ==
    \/ /\ last.op = "insert_color_themes_record"
       /\ ~select_wallpaper_record(prev, last.w).ok
    \/ /\ last.op = "insert_rgb_record"
       /\ \/ ~select_wallpaper_record(prev, last.w).ok
          \/ ~select_color_themes_record(prev, last.ct, last.w).ok

\* C5: a dependent write whose parent row is missing returns an error and
\* leaves all three tables as they were.
C5_DependentWriteFails ==
    ParentMissing => (~last.ok /\ DB = prev)

\* C5 witness: insert_rgb_record was refused because the color_themes row
\* of its key is missing, although the wallpaper row and another
\* color_themes row exist.
C5_Witness ==
    /\ last.op = "insert_rgb_record"
    /\ select_wallpaper_record(prev, last.w).ok
    /\ ~select_color_themes_record(prev, last.ct, last.w).ok
    /\ Len(prev.color_themes) > 0
    /\ ~last.ok
    /\ DB = prev

\* C7 (as claimed): select_rgb_records returns an error when the wallpaper
\* row and the color_themes row of the key exist and no RGB row references
\* them.
C7_SelectRgbErrsWithoutRows ==
    (/\ last.op = "select_rgb_records"
     /\ select_wallpaper_record(DB, last.w).ok
     /\ select_color_themes_record(DB, last.ct, last.w).ok
     /\ ~\E i \in 1..Len(rgb) :
           /\ rgb[i].wallpaper = select_wallpaper_record(DB, last.w).rowid
           /\ rgb[i].color_themes =
                 select_color_themes_record(DB, last.ct, last.w).rowid)
        => ~last.ok

(***************************************************************************)
(* Properties of the get-or-compute path of main.                          *)
(***************************************************************************)
\* C6 (as claimed): no partial palette is served.  Whenever a lookup of
\* main hits, the colours it returns are the complete colour list handed
\* to an insert for that image, never a strict prefix of one and never
\* the empty list.
C6_NoPartialPalette ==
    \A p \in Procs :
        (pc[p] = "output" /\ trace[p].hit)
            => \E o \in offered :
                  o.image = req[p].image /\ theme[p] = o.colors

\* C8 (as claimed): cache-hit short circuit.  A request started after a
\* request with the same arguments has completed by computing and
\* inserting never invokes the pixel source and the statistic, and the
\* palette it outputs is the palette of that completed request.
C8_HitShortCircuit ==
    \A p \in Procs :
        trace[p].known # {}
            => /\ ~trace[p].computed
               /\ pc[p] \in {"output", "done"}
                     => \E c \in trace[p].known : theme[p] = c.colors

\* C9 (as claimed): any failure aborts the request.  Once a step of a
\* request has failed (a storage failure of the lookup or of the insert, a
\* pixel-source failure, a failure of the statistic), the request has ended
\* in failure and takes no further step.
C9_FailureAborts ==
    \A p \in Procs : trace[p].failure # "none" => pc[p] = "failed"

(***************************************************************************)
(* Growth of the tables under the DatabaseConnection methods.              *)
(***************************************************************************)
\* The row sequence s is an initial part of the row sequence t.
IsPrefix(s, t) ==
    /\ Len(s) <= Len(t)
    /\ \A i \in 1..Len(s) : s[i] = t[i]

\* C19 (as claimed): every step of the cache, whatever the path of its
\* key, keeps every row of wallpaper, of color_themes and of RGB in its
\* place with all its column values (each table only grows at its end),
\* and a lookup changes no table at all.
C19_AppendOnly ==
    [][/\ IsPrefix(wallpaper, wallpaper')
       /\ IsPrefix(color_themes, color_themes')
       /\ IsPrefix(rgb, rgb')
       /\ last'.op \in {"select_rgb_records", "lookup"}
             => UNCHANGED dbvars]_vars

\* C20: the wallpaper table holds at most one row for each pair of path
\* and centrality.
C20_OneWallpaperRowPerPair ==
    \A i, j \in 1..Len(wallpaper) :
        (/\ wallpaper[i].path = wallpaper[j].path
         /\ wallpaper[i].centrality = wallpaper[j].centrality) => i = j

\* The table that holds the row alone.
OnlyRow(row) == [new EXCEPT !.wallpaper = <<row>>]

C23_OpenIsAdditive ==
    last.op = "new"
        => /\ DB = prev
           /\ \A k \in Keys :
                 select_rgb_records(DB, k.w, k.ct)
                    = select_rgb_records(prev, k.w, k.ct)

\* C23 witness: the store was opened again while it held a palette, and
\* the lookup of its key still returns that palette.
C23_Witness ==
    /\ last.op = "new"
    /\ prev.rgb # <<>>
    /\ \E k \in Keys :
          /\ select_rgb_records(DB, k.w, k.ct).ok
          /\ Len(select_rgb_records(DB, k.w, k.ct).val) = 2

\* C27 (as claimed): an insert under one key changes the lookup of no
\* other key: after insert(k2, c2) every key k1 # k2 looks up what it
\* looked up before, in particular the palette c1 of an earlier
\* insert(k1, c1), also when k1 and k2 share the path and the centrality
\* and differ in the options.
C27_InsertFrame ==
    last.op = "insert"
        => \A k \in InsertKeys \ {Key(last.w, last.ct)} :
              lookup(DB, k.w, k.ct) = lookup(prev, k.w, k.ct)

(***************************************************************************)
(* SpecRecord: wallpaper rows and color_themes rows written and read       *)
(* back one at a time, with paths that contain the quote character and     *)
(* options that set one of the integer fields.                             *)
(***************************************************************************)
RecordPaths ==
    {p \in {<<"a">>, <<"a", "'", "b">>, <<"a", "'", "'", "b">>,
            <<"a", "'", "|", "|", "'", "b">>, DeletePath} : SqlPath(p)}

RecordWallpapers == {Wallpaper(p, "Median") : p \in RecordPaths}

RecordOptions ==
    {DefaultOption,
     [DefaultOption EXCEPT !.darker = 10],
     [DefaultOption EXCEPT !.lighter = 7],
     [DefaultOption EXCEPT !.monochromatic = 5]}

InsertWallpaperPath ==
    \E w \in RecordWallpapers :
        LET r == insert_wallpaper_record(DB, w)
        IN  /\ Rows < MaxRecords
            /\ Store(r.db)
            /\ last' = Call("insert_wallpaper_record", w, DefaultOption, <<>>,
                            r.ok, <<>>)
            /\ prev' = DB
            /\ UNCHANGED <<inserted, mainvars, statvars>>

SelectWallpaperPath ==
    \E w \in RecordWallpapers :
        LET r == select_wallpaper_record(DB, w)
        IN  /\ last' = Call("select_wallpaper_record", w, DefaultOption, <<>>,
                            r.ok, <<r.wallpaper, r.rowid>>)
            /\ prev' = DB
            /\ UNCHANGED <<dbvars, inserted, mainvars, statvars>>

InsertColorThemesOption ==
    \E w \in RecordWallpapers, ct \in RecordOptions :
        LET r == insert_color_themes_record(DB, ct, w)
        IN  /\ Rows < MaxRecords
            /\ Store(r.db)
            /\ last' = Call("insert_color_themes_record", w, ct, <<>>, r.ok, <<>>)
            /\ prev' = DB
            /\ UNCHANGED <<inserted, mainvars, statvars>>

SelectColorThemesOption ==
    \E w \in RecordWallpapers, ct \in RecordOptions :
        LET r == select_color_themes_record(DB, ct, w)
        IN  /\ last' = Call("select_color_themes_record", w, ct, <<>>,
                            r.ok, <<r.color_themes, r.rowid>>)
            /\ prev' = DB
            /\ UNCHANGED <<dbvars, inserted, mainvars, statvars>>

NextRecord ==
    \/ InsertWallpaperPath
    \/ SelectWallpaperPath
    \/ InsertColorThemesOption
    \/ SelectColorThemesOption

SpecRecord == Init /\ [][NextRecord]_vars

\* C28: once insert_color_themes_record(ct, w) has succeeded,
\* select_color_themes_record(ct, w) succeeds and returns a
\* ColorThemeOption equal to ct in all 15 fields (every ct drawn here has
\* at most one non-default field).
C28_ConfigRoundTrip ==
    (last.op = "insert_color_themes_record" /\ last.ok)
        => /\ select_color_themes_record(DB, last.ct, last.w).ok
           /\ select_color_themes_record(DB, last.ct, last.w).color_themes
                 = last.ct

\* C30: for every path, with or without a quote character,
\* insert_wallpaper_record succeeds and a select_wallpaper_record after it
\* succeeds and returns that same path.
C30_PathIsOpaque ==
    last.op = "insert_wallpaper_record"
        => /\ last.ok
           /\ select_wallpaper_record(DB, last.w).ok
           /\ select_wallpaper_record(DB, last.w).wallpaper.path = last.w.path

\* C25: a request is served from the cache only when a request with the
\* same image path and the same centrality (main has no other key
\* component) computed the palette that was stored; a request for a cached
\* image under another centrality is a miss.
C25_HitOnlyForSameKey ==
    \A p \in Procs :
        trace[p].hit
            => \E o \in offered :
                  /\ o.image = req[p].image
                  /\ o.centrality = req[p].centrality

(***************************************************************************)
(* SpecWriters: two processes on one cache file, each performing whole     *)
(* inserts (the wallpaper row, the color_themes row, one RGB row per       *)
(* colour); a step is one row write, and the steps of the two processes    *)
(* interleave in any order.                                                *)
(***************************************************************************)
WriterKeys ==
    {k \in
        {Key(Wallpaper(<<"a">>, "Average"), DefaultOption),
         Key(Wallpaper(<<"a">>, "Average"), [DefaultOption EXCEPT !.darker = 10]),
         Key(Wallpaper(DeletePath, "Average"), DefaultOption)} :
        SqlPath(k.w.path)}

WriterPalettes ==
    {<<RGB(200, 100, 50)>>, <<RGB(200, 100, 50), RGB(0, 255, 10)>>}

InitWriters ==
    /\ wallpaper = new.wallpaper
    /\ color_themes = new.color_themes
    /\ rgb = new.rgb
    /\ last = Call("new", Wallpaper(<<>>, "Average"), DefaultOption, <<>>, TRUE, <<>>)
    /\ prev = new
    /\ inserted = {}
    /\ pc = [p \in Procs |-> "idle"]
    /\ req = [p \in Procs |-> Key(Wallpaper(<<"a">>, "Average"), DefaultOption)]
    /\ theme = [p \in Procs |-> <<>>]
    /\ cursor = [p \in Procs |-> 0]
    /\ trace = [p \in Procs |-> NoTrace]
    /\ offered = {}
    /\ completed = {}
    /\ failures = 0
    /\ requests = 0
    /\ StatIdle

\* A process begins an insert of the palette colors under the key k.
WriterStart(p) ==
    \E k \in WriterKeys, colors \in WriterPalettes :
        /\ pc[p] \in {"idle", "done", "failed"}
        /\ requests < MaxWrites
        /\ requests' = requests + 1
        /\ req' = [req EXCEPT ![p] = k]
        /\ theme' = [theme EXCEPT ![p] = colors]
        /\ cursor' = [cursor EXCEPT ![p] = 0]
        /\ pc' = [pc EXCEPT ![p] = "insert_wallpaper"]
        /\ UNCHANGED <<dbvars, apivars, trace, offered, completed, failures,
                       statvars>>

WriteWallpaper(p) ==
    LET r == insert_wallpaper_record(DB, req[p].w)
    IN  /\ pc[p] = "insert_wallpaper"
        /\ Store(r.db)
        /\ pc' = [pc EXCEPT ![p] =
                    IF r.ok THEN "insert_color_themes" ELSE "failed"]
        /\ UNCHANGED <<apivars, req, theme, cursor, trace, offered, completed,
                       failures, requests, statvars>>

WriteColorThemes(p) ==
    LET r == insert_color_themes_record(DB, req[p].ct, req[p].w)
    IN  /\ pc[p] = "insert_color_themes"
        /\ Store(r.db)
        /\ pc' = [pc EXCEPT ![p] = IF r.ok THEN "insert_rgb" ELSE "failed"]
        /\ UNCHANGED <<apivars, req, theme, cursor, trace, offered, completed,
                       failures, requests, statvars>>

WriteRgb(p) ==
    LET r == insert_rgb_record(DB, theme[p][cursor[p] + 1], req[p].w, req[p].ct)
    IN  /\ pc[p] = "insert_rgb"
        /\ Store(r.db)
        /\ cursor' = [cursor EXCEPT ![p] = IF r.ok THEN @ + 1 ELSE @]
        /\ pc' = [pc EXCEPT ![p] =
                    IF ~r.ok THEN "failed"
                    ELSE IF cursor[p] + 1 = Len(theme[p]) THEN "done"
                    ELSE "insert_rgb"]
        /\ UNCHANGED <<apivars, req, theme, trace, offered, completed,
                       failures, requests, statvars>>

NextWriters ==
    \/ \E p \in Procs : WriterStart(p)
    \/ \E p \in Procs : WriteWallpaper(p)
    \/ \E p \in Procs : WriteColorThemes(p)
    \/ \E p \in Procs : WriteRgb(p)

SpecWriters == InitWriters /\ [][NextWriters]_vars

\* C21 (as claimed): while and after two processes insert the same
\* fingerprint, whatever its path and however their row writes interleave,
\* each color_themes row references a wallpaper row that is in the table,
\* and each RGB row references a wallpaper row and a color_themes row that
\* are in their tables.
C21_ConcurrentWritersKeepStructure ==
    (/\ req[1] = req[2]
     /\ \A p \in Procs : pc[p] # "idle")
        => /\ \A i \in 1..Len(color_themes) :
                 color_themes[i].wallpaper \in 1..Len(wallpaper)
           /\ \A i \in 1..Len(rgb) :
                 /\ rgb[i].wallpaper \in 1..Len(wallpaper)
                 /\ rgb[i].color_themes \in 1..Len(color_themes)

=============================================================================
